---- MODULE Spec2Model ----
(***************************************************************************)
(* Bradley-Terry latent strengths plus the trophy progression layer of     *)
(* src/scripts/ranking_system_concept.py.                                  *)
(*                                                                         *)
(* Reals are fixed-point integers:                                         *)
(*   latent strengths, true skills, K and sigma   in 1/THETA_ONE  (1e-4)   *)
(*   probabilities                                in 1/PROB_ONE   (1e-6)   *)
(*   the fade scale                               in 1/SCALE_ONE  (1e-4)   *)
(*   trophies, targets, gains, penalties, widths  in 1/TROPHY_ONE (1e-2)   *)
(*   standard normal quantiles                    in 1/Z_ONE      (1e-3)   *)
(* Every product is rounded to the nearest unit, halves away from zero.    *)
(* Participants are indexed 0..players-1 as in the source.                 *)
(***************************************************************************)
EXTENDS Integers, Sequences, FiniteSets, TLC

\* ------------------------------------------------------------------ bounds
\* Largest population of a simulated run (the source runs 100 players).
MaxPlayers == 3
\* Largest population of a run under a non-default configuration.
MaxCfgPlayers == 2
\* Rounds explored per run: the loop is followed for at most this many rounds.
MaxRounds == 2
\* Largest games_played_per_person of a run (the source uses 100).
MaxGamesPerPerson == 1

\* ------------------------------------------------------- fixed-point units
THETA_ONE == 10 * 1000
PROB_ONE == 1000 * 1000
TROPHY_ONE == 10 * 10
Z_ONE == 10 * 100
\* IEEE not-a-number, as a value no computation of the model produces otherwise.
NaN == 0 - 2000000000

Abs(x) == IF x < 0 THEN -x ELSE x

\* n / d for d > 0, rounded to the nearest integer, halves away from zero.
RoundDiv(n, d) == IF n >= 0 THEN (2 * n + d) \div (2 * d) ELSE -((2 * (-n) + d) \div (2 * d))

\* --------------------------------------------------------------- Config
\* Lines 12-27 of the source, in the units above.
K_BT == 500
tightness == 2
WIN_GAIN == 3500
LOSS_PENALTY == 2500
TARGET_MEAN == 150000
TARGET_STD == 43000
FADE_WIDTH == 30000
SIGMA_MATCH == 4000

DefaultCfg == [K_BT |-> K_BT, tightness |-> tightness, WIN_GAIN |-> WIN_GAIN, LOSS_PENALTY |-> LOSS_PENALTY, TARGET_MEAN |-> TARGET_MEAN, TARGET_STD |-> TARGET_STD, FADE_WIDTH |-> FADE_WIDTH, SIGMA_MATCH |-> SIGMA_MATCH]

VARIABLES
    players,                  \* population size
    games_played_per_person,  \* configured games per person
    cfg,                      \* the tunable constants of the Config block
    tiebreak,                 \* how this build's np.argsort orders equal keys
    true_skills,              \* hidden true skill per participant
    theta,                    \* latent log-strength per participant
    games,                    \* games played per participant
    trophies,                 \* displayed trophy score per participant
    round,                    \* completed iterations of the simulation loop
    i,                        \* selected participant of the current round
    j,                        \* its opponent
    draw,                     \* the value rng.random() returned on line 87
    i_wins,                   \* true outcome of the current round
    targets,                  \* target trophies of the current round
    rng_draws,                \* draws consumed from rng since the skills were drawn
    pc                        \* position of the script

vars == <<players, games_played_per_person, cfg, tiebreak, true_skills, theta, games, trophies, round, i, j, draw, i_wins, targets, rng_draws, pc>>

Players == 0 .. (players - 1)

num_games == games_played_per_person * players

\* np.zeros(n)
zeros(n) == [k \in 0 .. (n - 1) |-> 0]

\* ----------------------------------------------------- logistic function
\* 1 / (1 + exp(-d)) at the knots d = 0, 0.05, 0.1, 0.25, 0.5, 1, 1.5, 2, 3, 4,
\* 5, 6, 8, 10, 14, 36.7; linear between knots. Above 36.7 a float64 result is
\* exactly 1.0.
LogisticKnotX == <<0, 500, 1000, 2500, 5000, 10000, 15000, 20000, 30000, 40000, 50000, 60000, 80000, 100000, 140000, 367000>>
LogisticKnotP == <<500000, 512497, 524979, 562177, 622459, 731059, 817574, 880797, 952574, 982014, 993307, 997527, 999665, 999955, 999999, 999999>>

LogisticPos(d) ==
    IF d >= LogisticKnotX[Len(LogisticKnotX)] THEN PROB_ONE
    ELSE LET k == CHOOSE k \in 1 .. (Len(LogisticKnotX) - 1) : LogisticKnotX[k] <= d /\ d < LogisticKnotX[k + 1]
         IN  LogisticKnotP[k] + RoundDiv((LogisticKnotP[k + 1] - LogisticKnotP[k]) * (d - LogisticKnotX[k]), LogisticKnotX[k + 1] - LogisticKnotX[k])

Logistic(d) == IF d >= 0 THEN LogisticPos(d) ELSE PROB_ONE - LogisticPos(-d)

\* ------------------------------------------------- Bradley-Terry update
\* np.exp(x) is inf above 709.78 and 0.0 below -745.13 in float64.
EXP_OVERFLOW == 7097800
EXP_UNDERFLOW == -7451300

ExpKind(x) == IF x > EXP_OVERFLOW THEN "inf" ELSE IF x < EXP_UNDERFLOW THEN "zero" ELSE "fin"

\* p = np.exp(a) / (np.exp(a) + np.exp(b))
bt_p(a, b) ==
    LET ea == ExpKind(a)
        eb == ExpKind(b)
    IN  IF ea = "inf" THEN NaN
        ELSE IF eb = "inf" THEN 0
        ELSE IF ea = "zero" /\ eb = "zero" THEN NaN
        ELSE IF ea = "zero" THEN 0
        ELSE IF eb = "zero" THEN PROB_ONE
        ELSE Logistic(a - b)

\* delta without the step size: outcome - p
bt_delta_without_K(a, b, outcome, K) ==
    LET p == bt_p(a, b)
    IN  IF p = NaN THEN NaN ELSE RoundDiv(outcome * PROB_ONE - p, PROB_ONE \div THETA_ONE)

\* delta = K * (outcome - p)
bt_delta(a, b, outcome, K) ==
    LET p == bt_p(a, b)
    IN  IF p = NaN THEN NaN ELSE RoundDiv(K * (outcome * PROB_ONE - p), PROB_ONE)

\* bt_update with the loser moved the same way as the winner
bt_update_same_sign(a, b, outcome, K) ==
    LET delta == bt_delta(a, b, outcome, K)
    IN  IF delta = NaN THEN <<NaN, NaN>> ELSE <<a + delta, b + delta>>

bt_update(a, b, outcome, K) ==
    LET delta == bt_delta(a, b, outcome, K)
    IN  IF delta = NaN THEN <<NaN, NaN>> ELSE <<a + delta, b - delta>>

\* ------------------------------------------- BT scores -> target trophies
TieBreaks == {"index", "reverse"}

\* Whether element m sorts before element k. The default np.argsort is not a
\* stable sort: the order of equal keys is fixed by the build, either by
\* ascending index or not.
sorts_before(v, tb, m, k) == v[m] < v[k] \/ (v[m] = v[k] /\ IF tb = "index" THEN m < k ELSE m > k)

\* np.argsort(v): position -> index of the element that sorts there
argsort(v, tb) == [pos \in DOMAIN v |-> CHOOSE k \in DOMAIN v : Cardinality({m \in DOMAIN v : sorts_before(v, tb, m, k)}) = pos]

\* ranks taken from a single argsort
ranks_single_argsort(th, tb) == argsort(th, tb)

\* ranks that tied strengths share: the lowest rank of the tie group
ranks_tied_lowest(th, tb) == [k \in DOMAIN th |-> Cardinality({m \in DOMAIN th : th[m] < th[k]})]

\* ranks that tied strengths share: the highest rank of the tie group
ranks_tied_highest(th, tb) == [k \in DOMAIN th |-> Cardinality({m \in DOMAIN th : th[m] <= th[k]}) - 1]

\* ranks = np.argsort(np.argsort(theta))
ranks_of(th, tb) == argsort(argsort(th, tb), tb)

\* norm.ppf(k / (n + 1)) for n = 1 .. 6 and k = 1 .. n
NormPpfTable == << <<0>>, <<-431, 431>>, <<-674, 0, 674>>, <<-842, -253, 253, 842>>, <<-967, -431, 0, 431, 967>>, <<-1068, -566, -180, 180, 566, 1068>> >>

norm_ppf(k, n) == NormPpfTable[n][k]

target_trophies(th) ==
    LET ranks == ranks_of(th, tiebreak)
        n == Cardinality(DOMAIN th)
    IN  [k \in DOMAIN th |-> cfg.TARGET_MEAN + RoundDiv(cfg.TARGET_STD * norm_ppf(ranks[k] + 1, n), Z_ONE)]

\* ------------------------------------------------ Matchmaking: choose opponent
\* exp(-0.5 * (d / sigma) ** 2) as 0, some positive float (1) or NaN: which
\* opponents rng.choice can return depends on the support of probs only. The
\* float64 result is 0.0 once |d / sigma| exceeds 38.6; d / 0 is +-inf for d # 0
\* (weight 0.0) and NaN for d = 0.
kernel_weight(d, sigma) ==
    IF sigma = 0 THEN (IF d = 0 THEN NaN ELSE 0)
    ELSE IF Abs(d) * 10 <= 386 * Abs(sigma) THEN 1 ELSE 0

\* probs without line 72: the participant keeps its own weight
match_weights_self_kept(p, th) == [k \in DOMAIN th |-> kernel_weight(th[k] - th[p], cfg.SIGMA_MATCH)]

\* probs after line 72 (probs[i] = 0.0)
match_weights(p, th) == [k \in DOMAIN th |-> IF k = p THEN 0 ELSE kernel_weight(th[k] - th[p], cfg.SIGMA_MATCH)]

\* probs.sum()
weights_sum(w) == IF \E k \in DOMAIN w : w[k] = NaN THEN NaN ELSE Cardinality({k \in DOMAIN w : w[k] > 0})

\* rng.choice(len(theta)) without p=probs
choose_opponent_unweighted(p, th) == DOMAIN th

\* The indices rng.choice(len(theta), p=probs) can return; the empty set when
\* probs /= probs.sum() leaves NaN and rng.choice raises ValueError.
choose_opponent(p, th) ==
    LET probs == match_weights(p, th)
        total == weights_sum(probs)
    IN  IF total = NaN \/ total = 0 THEN {} ELSE {k \in DOMAIN th : probs[k] > 0}

\* ------------------------------------------------------- true outcome
\* rng.random(), three representative draws of [0, 1)
Draws == {0, 500000, 990000}

\* the outcome probability taken from the estimated strengths
p_true_from_theta(a, b) == Logistic(cfg.tightness * (theta[a] - theta[b]))

\* p_true = 1 / (1 + np.exp(-tightness * (true_skills[i] - true_skills[j])))
p_true(a, b) == Logistic(cfg.tightness * (true_skills[a] - true_skills[b]))

\* ------------------------------------------------------- trophy step
SCALE_ONE == 100 * 100

\* scale from the absolute gap
fade_scale_abs(gap, width) ==
    IF width = 0 THEN (IF gap = 0 THEN NaN ELSE SCALE_ONE)
    ELSE IF Abs(gap) >= Abs(width) THEN SCALE_ONE ELSE RoundDiv(Abs(gap) * SCALE_ONE, Abs(width))

\* scale without the fade: 1 below target, 0 otherwise
fade_scale_no_fade(gap, width) == IF gap > 0 THEN SCALE_ONE ELSE 0

\* scale = np.clip(gap / FADE_WIDTH, 0, 1); gap is a float64, so gap / 0 is
\* +-inf (clipped to 1 or 0) or NaN.
fade_scale(gap, width) ==
    IF width = 0 THEN (IF gap > 0 THEN SCALE_ONE ELSE IF gap < 0 THEN 0 ELSE NaN)
    ELSE LET n == IF width > 0 THEN gap ELSE -gap
             d == Abs(width)
         IN  IF n <= 0 THEN 0 ELSE IF n >= d THEN SCALE_ONE ELSE RoundDiv(n * SCALE_ONE, d)

\* line 113 left out
floor_forgotten(x) == x

\* max(0, x): Python keeps 0 unless x > 0 holds, which is false for NaN
floor_at_zero(x) == IF x = NaN THEN 0 ELSE IF x > 0 THEN x ELSE 0

\* the loss penalty not scaled by the gap
trophy_moved_flat_penalty(player, win) ==
    LET gap == targets[player] - trophies[player]
        scale == fade_scale(gap, cfg.FADE_WIDTH)
        win_gain == RoundDiv(cfg.WIN_GAIN * scale, SCALE_ONE)
    IN  IF scale = NaN THEN NaN
        ELSE IF win THEN trophies[player] + win_gain
        ELSE trophies[player] - cfg.LOSS_PENALTY

\* the loss penalty scaled by 1 - scale: small far below target
trophy_moved_inverse_penalty(player, win) ==
    LET gap == targets[player] - trophies[player]
        scale == fade_scale(gap, cfg.FADE_WIDTH)
        win_gain == RoundDiv(cfg.WIN_GAIN * scale, SCALE_ONE)
        loss_penalty == RoundDiv(cfg.LOSS_PENALTY * (SCALE_ONE - scale), SCALE_ONE)
    IN  IF scale = NaN THEN NaN
        ELSE IF win THEN trophies[player] + win_gain
        ELSE trophies[player] - loss_penalty

\* the win gain not scaled by the gap
trophy_moved_flat_gain(player, win) ==
    LET gap == targets[player] - trophies[player]
        scale == fade_scale(gap, cfg.FADE_WIDTH)
        loss_penalty == RoundDiv(cfg.LOSS_PENALTY * scale, SCALE_ONE)
    IN  IF scale = NaN THEN NaN
        ELSE IF win THEN trophies[player] + cfg.WIN_GAIN
        ELSE trophies[player] - loss_penalty

\* trophies[player] after win_gain was added or loss_penalty subtracted
trophy_moved(player, win) ==
    LET gap == targets[player] - trophies[player]
        scale == fade_scale(gap, cfg.FADE_WIDTH)
        win_gain == RoundDiv(cfg.WIN_GAIN * scale, SCALE_ONE)
        loss_penalty == RoundDiv(cfg.LOSS_PENALTY * scale, SCALE_ONE)
    IN  IF scale = NaN THEN NaN
        ELSE IF win THEN trophies[player] + win_gain
        ELSE trophies[player] - loss_penalty

\* the step applied to every participant, not to player alone
trophy_step_everyone(player, win) == [k \in DOMAIN trophies |-> floor_at_zero(trophy_moved(k, win))]

\* the trophies array after trophy_step(player, win)
trophy_step(player, win) == [trophies EXCEPT ![player] = floor_at_zero(trophy_moved(player, win))]

\* ------------------------------------------------------- initial state
\* Names not yet bound by the script: i, j (no index), the value drawn on
\* line 87 (no draw yet) and targets (no array).
Unset == 0 - 1
NoTargets == << >>

\* rng.standard_normal(players): two representative skill vectors
SkillProfiles(n) == {[k \in 0 .. (n - 1) |-> IF k % 2 = 0 THEN THETA_ONE ELSE -THETA_ONE], [k \in 0 .. (n - 1) |-> 0]}

\* Lines 12-45: the state when the simulation loop is entered.
Start(n, g, c) ==
    /\ players = n
    /\ games_played_per_person = g
    /\ cfg = c
    /\ tiebreak \in TieBreaks
    /\ true_skills \in SkillProfiles(n)
    /\ theta = zeros(n)
    /\ games = zeros(n)
    /\ trophies = zeros(n)
    /\ round = 0
    /\ i = Unset
    /\ j = Unset
    /\ i_wins = FALSE
    /\ targets = NoTargets
    /\ rng_draws = 0
    /\ draw = Unset
    /\ pc = "select"

Init == \E n \in 0 .. MaxPlayers, g \in 0 .. MaxGamesPerPerson : Start(n, g, DefaultCfg)

\* ------------------------------------------------------- simulation loop
config == <<players, games_played_per_person, cfg, tiebreak, true_skills>>

\* the loop left one round early
LoopExitEarly ==
    /\ pc = "select"
    /\ round >= num_games - 1
    /\ pc' = "done"
    /\ UNCHANGED <<config, theta, games, trophies, round, i, j, i_wins, targets, rng_draws, draw>>

\* line 81: range(num_games) is exhausted
LoopExit ==
    /\ pc = "select"
    /\ round >= num_games
    /\ pc' = "done"
    /\ UNCHANGED <<config, theta, games, trophies, round, i, j, i_wins, targets, rng_draws, draw>>

\* lines 82-83: i = rng.integers(players); j = choose_opponent(i, theta)
Select ==
    /\ pc = "select"
    /\ round < num_games
    /\ round < MaxRounds
    /\ \E ii \in Players : \E jj \in choose_opponent(ii, theta) :
        /\ i' = ii
        /\ j' = jj
    /\ rng_draws' = rng_draws + 2
    /\ pc' = "outcome"
    /\ UNCHANGED <<config, theta, games, trophies, round, i_wins, targets, draw>>

\* games[i] counted before the opponent is chosen
SelectFailsAfterCounting ==
    /\ pc = "select"
    /\ round < num_games
    /\ round < MaxRounds
    /\ \E ii \in Players :
        /\ choose_opponent(ii, theta) = {}
        /\ i' = ii
        /\ games' = [games EXCEPT ![ii] = @ + 1]
    /\ rng_draws' = rng_draws + 1
    /\ pc' = "failed"
    /\ UNCHANGED <<config, theta, trophies, round, j, i_wins, targets, draw>>

\* lines 82-83 when rng.choice raises: the script ends with the traceback
SelectFails ==
    /\ pc = "select"
    /\ round < num_games
    /\ round < MaxRounds
    /\ \E ii \in Players :
        /\ choose_opponent(ii, theta) = {}
        /\ i' = ii
    /\ rng_draws' = rng_draws + 1
    /\ pc' = "failed"
    /\ UNCHANGED <<config, theta, games, trophies, round, j, i_wins, targets, draw>>

\* lines 86-87: i_wins = rng.random() < p_true
Outcome ==
    /\ pc = "outcome"
    /\ \E u \in Draws :
        /\ draw' = u
        /\ i_wins' = (u < p_true(i, j))
    /\ rng_draws' = rng_draws + 1
    /\ pc' = "games"
    /\ UNCHANGED <<config, theta, games, trophies, round, i, j, targets>>

\* line 90 left out: only the initiator's game is counted
games_counted_initiator_only(g, a, b) == [g EXCEPT ![a] = @ + 1]

\* lines 89-90: games[i] += 1; games[j] += 1
games_counted(g, a, b) == LET g1 == [g EXCEPT ![a] = @ + 1] IN [g1 EXCEPT ![b] = @ + 1]

CountGames ==
    /\ pc = "games"
    /\ games' = games_counted(games, i, j)
    /\ pc' = "bt"
    /\ UNCHANGED <<config, theta, trophies, round, i, j, i_wins, targets, rng_draws, draw>>

\* lines 93-96 with the second value returned by bt_update dropped
bt_applied_winner_only(th, a, b, a_wins, K) ==
    IF a_wins
    THEN LET r == bt_update(th[a], th[b], 1, K) IN [th EXCEPT ![a] = r[1]]
    ELSE LET r == bt_update(th[b], th[a], 1, K) IN [th EXCEPT ![b] = r[1]]

\* lines 93-96: theta after the update of the winner (first) and the loser
bt_applied(th, a, b, a_wins, K) ==
    IF a_wins
    THEN LET r == bt_update(th[a], th[b], 1, K) IN [[th EXCEPT ![a] = r[1]] EXCEPT ![b] = r[2]]
    ELSE LET r == bt_update(th[b], th[a], 1, K) IN [[th EXCEPT ![b] = r[1]] EXCEPT ![a] = r[2]]

\* the targets taken before the update is written, line 99 ahead of lines 93-96
BTUpdateAfterTargets ==
    /\ pc = "bt"
    /\ targets' = target_trophies(theta)
    /\ theta' = bt_applied(theta, i, j, i_wins, cfg.K_BT)
    /\ pc' = "step_i"
    /\ UNCHANGED <<config, games, trophies, round, i, j, i_wins, rng_draws, draw>>

BTUpdate ==
    /\ pc = "bt"
    /\ theta' = bt_applied(theta, i, j, i_wins, cfg.K_BT)
    /\ pc' = "targets"
    /\ UNCHANGED <<config, games, trophies, round, i, j, i_wins, targets, rng_draws, draw>>

\* line 99 with theta sorted in place as a side effect
ComputeTargetsSortingInPlace ==
    /\ pc = "targets"
    /\ targets' = target_trophies(theta)
    /\ theta' = [pos \in DOMAIN theta |-> theta[argsort(theta, tiebreak)[pos]]]
    /\ pc' = "step_i"
    /\ UNCHANGED <<config, games, trophies, round, i, j, i_wins, rng_draws, draw>>

\* line 99: targets = target_trophies(theta)
ComputeTargets ==
    /\ pc = "targets"
    /\ targets' = target_trophies(theta)
    /\ pc' = "step_i"
    /\ UNCHANGED <<config, theta, games, trophies, round, i, j, i_wins, rng_draws, draw>>

\* line 115: trophy_step(i, i_wins)
StepI ==
    /\ pc = "step_i"
    /\ trophies' = trophy_step(i, i_wins)
    /\ pc' = "step_j"
    /\ UNCHANGED <<config, theta, games, round, i, j, i_wins, targets, rng_draws, draw>>

\* the second call given the same flag as the first
StepJSameOutcome ==
    /\ pc = "step_j"
    /\ trophies' = trophy_step(j, i_wins)
    /\ round' = round + 1
    /\ pc' = "select"
    /\ UNCHANGED <<config, theta, games, i, j, i_wins, targets, rng_draws, draw>>

\* line 116: trophy_step(j, not i_wins), which ends the round
StepJ ==
    /\ pc = "step_j"
    /\ trophies' = trophy_step(j, ~i_wins)
    /\ round' = round + 1
    /\ pc' = "select"
    /\ UNCHANGED <<config, theta, games, i, j, i_wins, targets, rng_draws, draw>>

Next == LoopExit \/ Select \/ SelectFails \/ Outcome \/ CountGames \/ BTUpdate \/ ComputeTargets \/ StepI \/ StepJ

Spec == Init /\ [][Next]_vars

\* ------------------------------------------- runs under other configurations
\* The Config block is the script's input: gains, penalties, widths and target
\* parameters of either sign, a zero fade width (gap / 0), a zero bandwidth.
Configs ==
    { DefaultCfg,
      [DefaultCfg EXCEPT !.WIN_GAIN = -3500],
      [DefaultCfg EXCEPT !.LOSS_PENALTY = 20000, !.FADE_WIDTH = 1000, !.TARGET_MEAN = 20000],
      [DefaultCfg EXCEPT !.FADE_WIDTH = 0, !.TARGET_MEAN = 18533],
      [DefaultCfg EXCEPT !.FADE_WIDTH = -30000, !.TARGET_MEAN = 0],
      [DefaultCfg EXCEPT !.TARGET_MEAN = -150000, !.LOSS_PENALTY = -2500],
      [DefaultCfg EXCEPT !.SIGMA_MATCH = 0] }

InitCfg == \E n \in 1 .. MaxCfgPlayers, g \in 1 .. MaxGamesPerPerson, c \in Configs : Start(n, g, c)

SpecCfg == InitCfg /\ [][Next]_vars

\* ------------------------------------------- single operations, any input
\* The part of a state that a single operation neither reads nor writes.
Frame(n) ==
    /\ players = n
    /\ games_played_per_person = 1
    /\ true_skills = zeros(n)
    /\ games = zeros(n)
    /\ round = 0
    /\ rng_draws = 0
    /\ draw = Unset

StrengthValues == {-5000, 0, 250, 500}

\* target_trophies on any strength vector
InitTargets ==
    \E n \in 1 .. MaxPlayers :
        /\ Frame(n)
        /\ cfg = DefaultCfg
        /\ tiebreak \in TieBreaks
        /\ theta \in [0 .. (n - 1) -> StrengthValues]
        /\ trophies = zeros(n)
        /\ i = Unset
        /\ j = Unset
        /\ i_wins = FALSE
        /\ targets = NoTargets
        /\ pc = "targets"

SpecTargets == InitTargets /\ [][ComputeTargets]_vars

\* line 99 evaluated once more on the strengths the first evaluation left
Recompute ==
    /\ pc = "step_i"
    /\ targets' = target_trophies(theta)
    /\ pc' = "recomputed"
    /\ UNCHANGED <<config, theta, games, trophies, round, i, j, i_wins, rng_draws, draw>>

NextRecompute == ComputeTargets \/ Recompute

SpecRecompute == InitTargets /\ [][NextRecompute]_vars

\* choose_opponent on any strength vector: strengths 0, 0.5 and 20.0, the
\* configured bandwidth and one approaching zero (1e-4)
WideStrengths == {0, 5000, 200000}

MatchConfigs == {DefaultCfg, [DefaultCfg EXCEPT !.SIGMA_MATCH = 1]}

InitChoose ==
    \E n \in 1 .. MaxPlayers :
        /\ Frame(n)
        /\ cfg \in MatchConfigs
        /\ tiebreak = "index"
        /\ theta \in [0 .. (n - 1) -> WideStrengths]
        /\ trophies = zeros(n)
        /\ i = Unset
        /\ j = Unset
        /\ i_wins = FALSE
        /\ targets = NoTargets
        /\ pc = "select"

NextChoose == Select \/ SelectFails

SpecChoose == InitChoose /\ [][NextChoose]_vars

\* trophy_step on any targets and trophy scores of two participants, under the
\* source's configuration and one with a narrow fade zone
StepConfigs == {DefaultCfg, [DefaultCfg EXCEPT !.FADE_WIDTH = 1000]}

\* targets of 500, 1315, 1500 and 1685 trophies; scores below, in the fade zone
\* of, at and above them
TargetValues == {50000, 131500, 150000, 168500}

TrophyValues == {0, 10000, 49500, 140000, 150000, 170000}

InitStep ==
    /\ Frame(2)
    /\ cfg \in StepConfigs
    /\ tiebreak = "index"
    /\ theta = zeros(2)
    /\ targets \in [0 .. 1 -> TargetValues]
    /\ trophies \in [0 .. 1 -> TrophyValues]
    /\ i \in 0 .. 1
    /\ j = 1 - i
    /\ i_wins \in BOOLEAN
    /\ pc = "step_i"

NextStep == StepI \/ StepJ

SpecStep == InitStep /\ [][NextStep]_vars

\* ================================================================= claims

\* C1: in every state of a run, under every configuration, every participant's
\* trophy score is >= 0.
C1_TrophiesNonNegative == \A k \in DOMAIN trophies : trophies[k] >= 0

\* The winner of a round under a negative win gain, held at 0 by the floor.
C1_Witness == pc = "step_j" /\ i_wins /\ cfg.WIN_GAIN < 0 /\ targets[i] > 0 /\ trophies[i] = 0

\* C2: the Bradley-Terry update of a round adds to one opponent's latent
\* strength what it subtracts from the other's: the two changes sum to 0.
C2_ZeroSumUpdate == [][pc = "bt" => (theta'[i] - theta[i]) + (theta'[j] - theta[j]) = 0]_vars

\* After the update of a second round, between opponents of unequal strength.
C2_Witness == pc = "targets" /\ round >= 1 /\ theta[i] /= 0 /\ theta[j] /= 0 /\ theta[i] + theta[j] /= 0

\* C3: target_trophies is monotone: a strictly higher latent strength never
\* gets a lower target.
C3_TargetsMonotone == pc = "step_i" => \A a, b \in Players : theta[a] > theta[b] => targets[a] >= targets[b]

\* Targets of three participants, two of them tied below the third.
C3_Witness == pc = "step_i" /\ \E a, b, c \in Players : b /= c /\ theta[a] > theta[b] /\ theta[b] = theta[c] /\ targets[a] > targets[b] /\ targets[a] > targets[c]

\* C4: target_trophies leaves the strength vector, the configuration and the
\* random source as they were, and evaluated again on the unchanged strength
\* vector it yields the same targets.
C4_RecomputeIdentical ==
    [][ /\ (pc = "targets" => (theta' = theta /\ rng_draws' = rng_draws /\ config' = config))
        /\ ((pc = "step_i" /\ pc' = "recomputed") => (targets' = targets /\ theta' = theta /\ rng_draws' = rng_draws /\ config' = config)) ]_vars

\* Targets recomputed for a strength vector that is not in ascending order.
C4_Witness == pc = "recomputed" /\ \E a, b \in Players : a < b /\ theta[a] > theta[b] /\ targets[a] > targets[b]

\* C5: with two or more participants choose_opponent does not fail when every
\* opponent weight is zero: it falls back to a uniform choice among the others.
C5_ZeroWeightsFallBack == (players >= 2 /\ pc = "failed") => weights_sum(match_weights(i, theta)) /= 0

C7_OpponentDistinct == pc = "outcome" => (i \in Players /\ j \in Players /\ j /= i)

\* An opponent chosen among three participants of unequal strength.
C7_Witness == pc = "outcome" /\ players = 3 /\ j /= i /\ theta[j] /= theta[i]

\* C8: a trophy step for a win at or above target (gap <= 0) leaves the trophy
\* score unchanged.
C8_NoGainAtOrAboveTarget ==
    [][ /\ ((pc = "step_i" /\ i_wins /\ targets[i] <= trophies[i]) => trophies'[i] = trophies[i])
        /\ ((pc = "step_j" /\ ~i_wins /\ targets[j] <= trophies[j]) => trophies'[j] = trophies[j]) ]_vars

\* After the step of a winner strictly above its target.
C8_Witness == pc = "step_j" /\ i_wins /\ targets[i] < trophies[i]

\* C9 as stated: a loss reduces a trophy score that is above its target and
\* above 0.
C9_LossAppliesAboveTarget ==
    [][ /\ ((pc = "step_i" /\ ~i_wins /\ targets[i] < trophies[i] /\ trophies[i] > 0) => trophies'[i] < trophies[i])
        /\ ((pc = "step_j" /\ i_wins /\ targets[j] < trophies[j] /\ trophies[j] > 0) => trophies'[j] < trophies[j]) ]_vars

\* C9 amended: the fade scale ties the loss penalty to being below target as it
\* does the win gain: a loss at or above target leaves the trophy score
\* unchanged.
C9_NoLossAtOrAboveTarget ==
    [][ /\ ((pc = "step_i" /\ ~i_wins /\ targets[i] <= trophies[i]) => trophies'[i] = trophies[i])
        /\ ((pc = "step_j" /\ i_wins /\ targets[j] <= trophies[j]) => trophies'[j] = trophies[j]) ]_vars

\* After the step of a loser strictly above its target and above 0.
C9_Witness == pc = "step_j" /\ ~i_wins /\ targets[i] < trophies[i] /\ trophies[i] > 0

\* The participant whose step is taken at the current position, and its outcome.
stepping == IF pc = "step_i" THEN i ELSE j

stepping_wins == IF pc = "step_i" THEN i_wins ELSE ~i_wins

\* trophies[p] - (its value after a loss), for the current targets and trophies
loss_amount(p) == trophies[p] - trophy_step(p, FALSE)[p]

\* C10 as stated: at gap >= fade_width a win adds the full win_gain, and a loss
\* subtracts less than the full loss_penalty and no more than a loss subtracts
\* from a participant with a smaller positive gap.
C10_LosesLittleFarBelowTarget ==
    [][ (pc \in {"step_i", "step_j"} /\ targets[stepping] - trophies[stepping] >= cfg.FADE_WIDTH) =>
            (IF stepping_wins
             THEN trophies'[stepping] = trophies[stepping] + cfg.WIN_GAIN
             ELSE (trophies[stepping] - trophies'[stepping] < cfg.LOSS_PENALTY) /\
                  (\A q \in Players :
                        (0 < targets[q] - trophies[q] /\ targets[q] - trophies[q] < targets[stepping] - trophies[stepping]) =>
                            trophies[stepping] - trophies'[stepping] <= loss_amount(q))) ]_vars

\* C10 amended: at gap >= fade_width a win adds the full win_gain and a loss
\* subtracts the full loss_penalty, as far as the floor at zero allows; a loss
\* at any gap subtracts at most that full loss_penalty.
C10_FullStepFarBelowTarget ==
    [][ (pc \in {"step_i", "step_j"}) =>
            ( ((targets[stepping] - trophies[stepping] >= cfg.FADE_WIDTH) =>
                    (IF stepping_wins
                     THEN trophies'[stepping] = trophies[stepping] + cfg.WIN_GAIN
                     ELSE trophies'[stepping] = floor_at_zero(trophies[stepping] - cfg.LOSS_PENALTY)))
              /\ (~stepping_wins => trophies[stepping] - trophies'[stepping] <= cfg.LOSS_PENALTY) ) ]_vars

\* After a loss far below target that took the full loss_penalty from 10000.
C10_Witness == pc = "step_j" /\ ~i_wins /\ trophies[i] = 10000 - cfg.LOSS_PENALTY /\ targets[i] - trophies[i] >= cfg.FADE_WIDTH + cfg.LOSS_PENALTY

\* ------------------------------------------- runs followed to their end
\* Runs whose num_games rounds are all explored. The script is sequential and
\* nothing in it waits: a statement that can be executed is executed.
InitWhole == \E n \in 0 .. MaxPlayers, g \in 0 .. MaxGamesPerPerson : n * g <= MaxRounds /\ Start(n, g, DefaultCfg)

SpecWhole == InitWhole /\ [][Next]_vars /\ WF_vars(Next)

\* C11: the loop runs exactly num_games = games_played_per_person * players
\* rounds: the script ends, normally unless choose_opponent raised, never after
\* more rounds than num_games, and normally only after exactly num_games.
C11_RunsConfiguredRounds ==
    /\ [](round <= num_games)
    /\ [](pc = "done" => round = num_games)
    /\ <>(pc = "done" \/ pc = "failed")

\* A run of two participants ended normally after its two rounds.
C11_Witness == pc = "done" /\ players = 2 /\ num_games = 2 /\ round = 2

\* ------------------------------------------- runs with a narrow match kernel
\* With SIGMA_MATCH = 1e-4 the first round is played (all strengths are equal)
\* and the second one finds every weight underflowed.
InitNarrow == \E n \in 1 .. MaxPlayers, g \in 1 .. MaxGamesPerPerson, c \in MatchConfigs : Start(n, g, c)

SpecNarrow == InitNarrow /\ [][Next]_vars

\* C12: a round in which choose_opponent raises changes no strength, no game
\* count and no trophy and completes no round; the script stops there, so
\* nothing is retried and no later round runs.
C12_FailedRoundChangesNothing ==
    [][ ( (pc = "select" /\ round < num_games /\ i' \in Players /\ choose_opponent(i', theta) = {})
            => (pc' = "failed" /\ theta' = theta /\ games' = games
                /\ trophies' = trophies /\ round' = round) )
        /\ ( (pc' = "failed")
            => (theta' = theta /\ games' = games /\ trophies' = trophies /\ round' = round) )
        /\ ( (pc = "failed") => (pc' = "failed") ) ]_vars

\* The second round failed after the first one was played in full.
C12_Witness ==
    /\ pc = "failed"
    /\ round = 1
    /\ \E p \in Players : games[p] = 1 /\ trophies[p] > 0 /\ theta[p] > 0

\* ------------------------------------------- non-positive widths
\* SIGMA_MATCH (line 27) and FADE_WIDTH (line 24) set to zero and below; the
\* script reads them on lines 71 and 103 only.
InvalidConfigs ==
    { [DefaultCfg EXCEPT !.SIGMA_MATCH = 0],
      [DefaultCfg EXCEPT !.SIGMA_MATCH = -4000],
      [DefaultCfg EXCEPT !.FADE_WIDTH = 0],
      [DefaultCfg EXCEPT !.FADE_WIDTH = -30000] }

InitInvalid == \E n \in 1 .. MaxCfgPlayers, g \in 1 .. MaxGamesPerPerson, c \in InvalidConfigs : Start(n, g, c)

SpecInvalid == InitInvalid /\ [][Next]_vars

\* C13: with SIGMA_MATCH <= 0 or FADE_WIDTH <= 0 the run is rejected before
\* any match is processed: no game is counted, no strength and no trophy
\* changes, no round completes.
C13_NonPositiveRejected ==
    (cfg.SIGMA_MATCH <= 0 \/ cfg.FADE_WIDTH <= 0)
        => ( /\ round = 0
             /\ games = zeros(players)
             /\ theta = zeros(players)
             /\ trophies = zeros(players) )

\* ------------------------------------------- one winner in both layers
\* the participant credited with the win of the current round, and the other
winner == IF i_wins THEN i ELSE j

loser == IF i_wins THEN j ELSE i

\* C14: from the draw of the outcome to the end of the round the pair and the
\* outcome stay the same; the Bradley-Terry update raises the strength of the
\* winner and lowers that of the loser; the trophy steps never lower the
\* trophies of that same winner and never raise those of the loser.
C14_OneWinnerBothLayers ==
    [][ ( (pc \in {"games", "bt", "targets", "step_i", "step_j"})
            => (i' = i /\ j' = j /\ i_wins' = i_wins) )
        /\ ( (pc = "bt")
            => (theta'[winner] > theta[winner] /\ theta'[loser] < theta[loser]) )
        /\ ( (pc \in {"step_i", "step_j"})
            => (trophies'[winner] >= trophies[winner] /\ trophies'[loser] <= trophies[loser]) ) ]_vars

\* A round has ended in which the winner gained strength and trophies and the
\* loser, who had trophies to lose, lost strength and trophies.
C14_Witness ==
    /\ pc = "select"
    /\ round = 2
    /\ theta[winner] > 0
    /\ theta[loser] < 0
    /\ trophies[winner] = WIN_GAIN
    /\ trophies[loser] > 0
    /\ trophies[loser] < WIN_GAIN

\* ------------------------------------------- bt_update, any pair of floats
\* Strengths from -750.0 to 710.0: small ones, a pair 40 apart, and two whose
\* exponential leaves float64.
BTStrengths == {-7500000, -10000, 0, 250, 10000, 400000, 7100000}

InitBT ==
    /\ Frame(2)
    /\ cfg = DefaultCfg
    /\ tiebreak = "index"
    /\ theta \in [0 .. 1 -> BTStrengths]
    /\ trophies = zeros(2)
    /\ targets = NoTargets
    /\ i \in 0 .. 1
    /\ j = 1 - i
    /\ i_wins \in BOOLEAN
    /\ pc = "bt"

SpecBT == InitBT /\ [][BTUpdate]_vars

\* C16: the Bradley-Terry update never produces a NaN (nor an overflow),
\* whatever the pair of strengths it is given.
C16_NoOverflowNoNaN == \A k \in DOMAIN theta : theta[k] /= NaN

\* C19: for K > 0 and any two strengths the update raises the winner's
\* strength and lowers the loser's by one same delta with 0 < delta < K.
C19_BoundedStrictStep ==
    [][ (pc = "bt")
        => ( /\ theta'[winner] /= NaN
             /\ theta'[loser] /= NaN
             /\ theta'[winner] - theta[winner] = theta[loser] - theta'[loser]
             /\ theta'[winner] - theta[winner] > 0
             /\ theta'[winner] - theta[winner] < cfg.K_BT ) ]_vars

\* ------------------------------------------- order of the steps of a round
\* C18: in each round the Bradley-Terry update comes first, the targets are
\* then computed once from the strengths it left, and both trophy steps read
\* that vector: at each trophy step the targets are those of the current
\* strengths, and neither strengths nor targets change during the two steps.
C18_TargetsFromUpdatedStrengths ==
    /\ []((pc \in {"step_i", "step_j"}) => (targets = target_trophies(theta)))
    /\ [][ (pc \in {"step_i", "step_j"}) => (theta' = theta /\ targets' = targets) ]_vars

\* The second trophy step of the second round, whose update changed the ranks
\* the first round had left: the loser of round 1 has beaten the third
\* participant and now ranks above it.
C18_Witness ==
    /\ pc = "step_j"
    /\ round = 1
    /\ players = 3
    /\ games[winner] = 2
    /\ games[loser] = 1
    /\ theta[winner] > 0
    /\ theta[winner] < 100
    /\ theta[loser] < 0
    /\ targets[winner] > targets[loser]
    /\ targets = target_trophies(theta)

\* ------------------------------------------- games played
\* sum of v over the indices in S
RECURSIVE sum_over(_, _)
sum_over(v, S) == IF S = {} THEN 0 ELSE LET k == CHOOSE m \in S : TRUE IN v[k] + sum_over(v, S \ {k})

\* rounds whose two games are counted: the completed ones, and the current
\* one from line 90 on
rounds_counted == IF pc \in {"bt", "targets", "step_i", "step_j"} THEN round + 1 ELSE round

\* C20: a round adds exactly 1 to the games of each of the two matched
\* participants and nothing to anyone else's, and games change nowhere else;
\* after k completed rounds the games sum to 2k.
C20_TwoGamesPerRound ==
    /\ [](sum_over(games, DOMAIN games) = 2 * rounds_counted)
    /\ [][ IF pc = "games"
           THEN /\ games'[i] = games[i] + 1
                /\ games'[j] = games[j] + 1
                /\ \A k \in DOMAIN games \ {i, j} : games'[k] = games[k]
           ELSE games' = games ]_vars

\* Two rounds among three participants: one has played both, the others one.
C20_Witness ==
    /\ pc = "select"
    /\ round = 2
    /\ players = 3
    /\ \E k \in Players : games[k] = 2
    /\ \E k \in Players : games[k] = 1
    /\ sum_over(games, Players) = 4

\* ------------------------------------------- the true outcome
\* C21: no step changes true_skills, and the outcome drawn on lines 86-87 is
\* fixed by the true skills of the two participants and the one value drawn:
\* i wins exactly when the draw is below the logistic of tightness times the
\* difference of their true skills, whatever theta, trophies and games hold.
C21_OutcomeFromTrueSkills ==
    [][ (true_skills' = true_skills)
        /\ ( (pc = "outcome")
            => (i_wins' = (draw' < Logistic(cfg.tightness * (true_skills[i] - true_skills[j])))) ) ]_vars

\* Second round: the more skilled participant lost the first round, so it is
\* behind in strength and trophies, and wins on a draw of 0.5.
C21_Witness ==
    /\ pc = "games"
    /\ round = 1
    /\ true_skills[i] > true_skills[j]
    /\ theta[i] < theta[j]
    /\ trophies[i] < trophies[j]
    /\ games[i] = 1
    /\ draw = 500000
    /\ i_wins

\* ------------------------------------------- ranks of equal strengths
\* C22: participants with equal strength are ranked in index order: for
\* a < b with theta[a] = theta[b] the rank of a, and with it the target of a,
\* is below that of b.
C22_TiesInIndexOrder ==
    (pc = "step_i") => (\A a, b \in Players : (a < b /\ theta[a] = theta[b]) => (targets[a] < targets[b]))

\* C23 as stated: participants with equal strength all receive the same
\* target (the one of the midpoint of the ranks their group occupies).
C23_TiesShareMidpointTarget ==
    (pc = "step_i") => (\A a, b \in Players : (theta[a] = theta[b]) => (targets[a] = targets[b]))

\* C23: participants with equal strength receive different targets, one for
\* each of the consecutive ranks their group occupies: no two of them share a
\* target and only members of the group lie between two of them.
C23_TiesSplitConsecutiveRanks ==
    (pc = "step_i") =>
        (\A a, b \in Players : (a /= b /\ theta[a] = theta[b]) =>
            ( /\ targets[a] /= targets[b]
              /\ \A c \in Players : (targets[a] < targets[c] /\ targets[c] < targets[b]) => (theta[c] = theta[a]) ))

\* Three tied participants: three different targets.
C23_Witness ==
    /\ pc = "step_i"
    /\ players = 3
    /\ theta[0] = theta[1]
    /\ theta[1] = theta[2]
    /\ targets[0] /= targets[1]
    /\ targets[1] /= targets[2]
    /\ targets[0] /= targets[2]

\* the target of rank r - 1 among n participants
target_of_rank(r, n) == cfg.TARGET_MEAN + RoundDiv(cfg.TARGET_STD * norm_ppf(r, n), Z_ONE)

\* C24: for any strength vector of N >= 1 participants the ranks are a
\* permutation of 0 .. N-1, so that rank + 1 lies strictly between 0 and N + 1
\* and the targets are the N values of the positions 1/(N+1) .. N/(N+1), each
\* given to one participant.
C24_RanksArePermutation ==
    (pc = "step_i") =>
        LET ranks == ranks_of(theta, tiebreak)
        IN  /\ {ranks[k] : k \in Players} = 0 .. (players - 1)
            /\ \A k \in Players : 0 < ranks[k] + 1 /\ ranks[k] + 1 < players + 1
            /\ {targets[k] : k \in Players} = {target_of_rank(r, players) : r \in 1 .. players}
            /\ \A a, b \in Players : (a /= b) => (targets[a] /= targets[b])

\* Two participants tied above a third: ranks 0, 1, 2 all taken.
C24_Witness ==
    /\ pc = "step_i"
    /\ players = 3
    /\ theta[0] = theta[2]
    /\ theta[1] < theta[0]
    /\ targets[1] = target_of_rank(1, 3)
    /\ {targets[0], targets[2]} = {target_of_rank(2, 3), target_of_rank(3, 3)}

\* ------------------------------------------- size of a trophy step
\* gap of participant p, and what a step would add to or take from its trophies
gap_of(p) == targets[p] - trophies[p]

gain_amount(p) == trophy_step(p, TRUE)[p] - trophies[p]

\* the full amount of the step taken at the current position
full_amount == IF stepping_wins THEN cfg.WIN_GAIN ELSE cfg.LOSS_PENALTY

\* what the step taken at the current position adds (win) or takes (loss)
moved_amount == IF stepping_wins THEN trophies'[stepping] - trophies[stepping] ELSE trophies[stepping] - trophies'[stepping]

\* what a step with the outcome of the current position would move for q
amount_for(q) == IF stepping_wins THEN gain_amount(q) ELSE loss_amount(q)

\* C25 as stated: a step moves the trophies by the full amount times
\* clamp(gap / fade_width, 0, 1): never more than the full amount, nothing at
\* gap <= 0, the full amount whenever gap >= fade_width, in proportion to the
\* gap in between, and no less than for a participant with a smaller gap.
C25_StepIsScaledAmount ==
    [][ (pc \in {"step_i", "step_j"}) =>
            ( (0 <= moved_amount /\ moved_amount <= full_amount)
              /\ ((gap_of(stepping) <= 0) => (moved_amount = 0))
              /\ ((gap_of(stepping) >= cfg.FADE_WIDTH) => (moved_amount = full_amount))
              /\ ((0 < gap_of(stepping) /\ gap_of(stepping) < cfg.FADE_WIDTH) =>
                    (Abs(moved_amount * cfg.FADE_WIDTH - full_amount * gap_of(stepping)) <= 2 * cfg.FADE_WIDTH))
              /\ (\A q \in Players : (gap_of(q) <= gap_of(stepping)) => (amount_for(q) <= moved_amount)) ) ]_vars

\* the floor at zero does not cut the loss of p
floor_spares(p) == trophies[p] >= cfg.LOSS_PENALTY

\* C25 amended: the same, for a win and for a loss that the floor at zero
\* does not cut; a loss from fewer trophies than the scaled penalty takes the
\* trophies that are there.
C25_StepIsScaledAmountAboveFloor ==
    [][ (pc \in {"step_i", "step_j"}) =>
            ( (0 <= moved_amount /\ moved_amount <= full_amount)
              /\ ((gap_of(stepping) <= 0) => (moved_amount = 0))
              /\ ((~stepping_wins /\ ~floor_spares(stepping)) => (moved_amount <= trophies[stepping]))
              /\ ((stepping_wins \/ floor_spares(stepping)) =>
                    ( ((gap_of(stepping) >= cfg.FADE_WIDTH) => (moved_amount = full_amount))
                      /\ ((0 < gap_of(stepping) /\ gap_of(stepping) < cfg.FADE_WIDTH) =>
                            (Abs(moved_amount * cfg.FADE_WIDTH - full_amount * gap_of(stepping)) <= 2 * cfg.FADE_WIDTH))
                      /\ (\A q \in Players : (gap_of(q) <= gap_of(stepping) /\ (stepping_wins \/ floor_spares(q))) => (amount_for(q) <= moved_amount)) )) ) ]_vars

\* After the loss of a participant 100 trophies below its target of 1500: a
\* third of the penalty.
C25_Witness ==
    /\ pc = "step_j"
    /\ ~i_wins
    /\ cfg.FADE_WIDTH = FADE_WIDTH
    /\ targets[i] = 150000
    /\ trophies[i] < 140000
    /\ trophies[i] > 140000 - LOSS_PENALTY
    /\ trophies[i] /= 140000 - LOSS_PENALTY

\* ------------------------------------------- bt_update with outcome = 0
\* theta after the same match recorded from the loser's side: bt_update is
\* given the loser first and outcome 0
bt_applied_as_loss(th, a, b, a_wins, K) ==
    IF a_wins
    THEN LET r == bt_update(th[b], th[a], 0, K) IN [[th EXCEPT ![b] = r[1]] EXCEPT ![a] = r[2]]
    ELSE LET r == bt_update(th[a], th[b], 0, K) IN [[th EXCEPT ![a] = r[1]] EXCEPT ![b] = r[2]]

BTUpdateAsLoss ==
    /\ pc = "bt"
    /\ theta' = bt_applied_as_loss(theta, i, j, i_wins, cfg.K_BT)
    /\ pc' = "targets"
    /\ UNCHANGED <<config, games, trophies, round, i, j, i_wins, targets, rng_draws, draw>>

NextMirror == BTUpdate \/ BTUpdateAsLoss

SpecMirror == InitBT /\ [][NextMirror]_vars

\* C26: recording a match as "first wins" (outcome 1, winner first) or as
\* "second loses" (outcome 0, loser first) gives the same new strengths, for
\* any two strengths.
C26_MirrorUpdate ==
    [][ (pc = "bt") => (theta' = bt_applied(theta, i, j, i_wins, cfg.K_BT)) ]_vars

\* ------------------------------------------- participants not in the match
\* C27: no step of a round changes the strength, the game count or the
\* trophies of a participant other than the selected one and its opponent,
\* also when that participant's target changes.
C27_BystandersUntouched ==
    [][ \A k \in Players : (k /= i' /\ k /= j') =>
            (theta'[k] = theta[k] /\ games'[k] = games[k] /\ trophies'[k] = trophies[k]) ]_vars

\* Two rounds between the same pair have ended: the third participant has
\* played nothing and holds nothing, and its target has moved to the middle.
C27_Witness ==
    /\ pc = "select"
    /\ round = 2
    /\ players = 3
    /\ \E k \in Players :
        /\ k /= i
        /\ k /= j
        /\ games[k] = 0
        /\ theta[k] = 0
        /\ trophies[k] = 0
        /\ targets[k] = TARGET_MEAN
        /\ games[i] = 2
        /\ games[j] = 2
        /\ trophies[i] + trophies[j] > 0

\* ------------------------------------------- trophies close to the targets
\* the largest target among n participants: TARGET_MEAN + TARGET_STD * norm.ppf(n / (n + 1))
top_target(n) == target_of_rank(n, n)

\* Trophy scores at 0 and at, just below and one full gain below the lowest
\* and the largest target.
NearTargets(n) ==
    { 0,
      target_of_rank(1, n) - 100, target_of_rank(1, n),
      top_target(n) - cfg.WIN_GAIN, top_target(n) - 100, top_target(n) }

\* The script's gain, and a gain as large as the fade width.
CeilingConfigs == {DefaultCfg, [DefaultCfg EXCEPT !.FADE_WIDTH = WIN_GAIN]}

\* Lines 99-116 of a round among participants that have trophies up to the
\* largest target.
InitCeiling ==
    \E n \in 2 .. MaxCfgPlayers :
        /\ Frame(n)
        /\ cfg \in CeilingConfigs
        /\ tiebreak = "index"
        /\ theta \in [0 .. (n - 1) -> {0, 250}]
        /\ trophies \in [0 .. (n - 1) -> NearTargets(n)]
        /\ targets = NoTargets
        /\ i \in 0 .. (n - 1)
        /\ j \in (0 .. (n - 1)) \ {i}
        /\ i_wins \in BOOLEAN
        /\ pc = "targets"

NextCeiling == ComputeTargets \/ StepI \/ StepJ

SpecCeiling == InitCeiling /\ [][NextCeiling]_vars

\* C28: with 0 < WIN_GAIN <= FADE_WIDTH a win never takes a trophy score that
\* is at or below its target above that target; with targets >= 0, trophy
\* scores that are at most the largest target stay at most the largest target.
C28_NoOvershoot ==
    /\ [](\A k \in Players : trophies[k] <= top_target(players))
    /\ [][ (pc \in {"step_i", "step_j"} /\ stepping_wins
            /\ 0 < cfg.WIN_GAIN /\ cfg.WIN_GAIN <= cfg.FADE_WIDTH
            /\ trophies[stepping] <= targets[stepping])
           => (trophies'[stepping] <= targets[stepping]) ]_vars

\* A win from 1 trophy below the largest target, with a gain as large as the
\* fade width: the score reaches the target and stops there.
C28_Witness ==
    /\ pc = "step_j"
    /\ i_wins
    /\ cfg.FADE_WIDTH = cfg.WIN_GAIN
    /\ targets[i] = top_target(players)
    /\ trophies[i] = top_target(players)
    /\ trophies[j] = top_target(players) - 100
    /\ targets[j] < trophies[j]

\* ------------------------------------------- strengths over a run
\* C29: in every state of a run the strengths of all participants sum to 0,
\* their sum at the start.
C29_StrengthsSumToZero == sum_over(theta, DOMAIN theta) = 0

\* Two rounds among three participants have moved every strength off 0.
C29_Witness ==
    /\ pc = "select"
    /\ round = 2
    /\ players = 3
    /\ \A k \in Players : theta[k] /= 0
    /\ sum_over(theta, Players) = 0

\* C30: in every state of a run |theta[p]| <= K_BT * games[p], strictly when
\* games[p] > 0, and a participant that has not played has strength 0 and 0
\* trophies.
C30_StrengthBoundedByGames ==
    \A p \in Players :
        /\ Abs(theta[p]) <= cfg.K_BT * games[p]
        /\ (games[p] > 0) => (Abs(theta[p]) < cfg.K_BT * games[p])
        /\ (games[p] = 0) => (theta[p] = 0 /\ trophies[p] = 0)

\* After two rounds: one participant has won both of its games, one has not
\* played.
C30_Witness ==
    /\ pc = "select"
    /\ round = 2
    /\ \E p, q \in Players :
        /\ games[p] = 2
        /\ theta[p] > cfg.K_BT \div 2
        /\ theta[p] < 2 * cfg.K_BT
        /\ games[q] = 0
        /\ theta[q] = 0
        /\ trophies[q] = 0

====
